---- MODULE Spec2Model ----
(***************************************************************************)
(* The save pipeline of the repair-report recorder (POST /api/repair/save) *)
(* in the revisions of the server found in the repository:                 *)
(*   "service"  static service-account credentials, fixed sheet name       *)
(*   "session"  session-scoped OAuth tokens        (src/api/index.ts)      *)
(*   "refresh"  refresh-token credentials, upload failures contained       *)
(* Texts are sequences of one-character strings.  "s","t" stand for the    *)
(* letters of the substation prefix token of the source.                   *)
(***************************************************************************)
EXTENDS Naturals, Sequences, FiniteSets, TLC

VARIABLES
    variant,    \* which revision of the handler is deployed
    env,        \* process-wide configuration read at startup
    title,      \* spreadsheet: the title of its first tab
    status,     \* session variant: the replies of /api/auth/status, latest only
    callback,   \* session variant: the replies of /auth/callback, latest only,
                \* when the run observes them
    form,       \* the web form: component state, requests in flight, timers
    session,    \* session variant: TRUE iff req.session.tokens is set
    folders,    \* file store: non-trashed folders directly under the root
    files,      \* file store: uploaded files
    rows,       \* spreadsheet: appended rows, in order
    tmp,        \* temporary files present on disk (paths)
    pc,         \* per request: position in the handler
    input,      \* per request: multipart fields (file, data)
    local,      \* per request: handler locals
    calls,      \* per request: external calls issued, in order (history)
    unlinks,    \* per request: paths it deleted, in order (history)
    responses   \* per request: responses sent, in order

vars == <<variant, env, title, status, callback, form, session, folders, files, rows, tmp,
          pc, input, local, calls, unlinks, responses>>

-----------------------------------------------------------------------------
(* Bounds and input sets *)

\* number of folders that may already exist under the root
MaxPreFolders == 1

\* the save requests, named in the order of their arrival
Reqs == {"r1", "r2"}
Earlier(r) == IF r = "r2" THEN {"r1"} ELSE {}

Variants == {"service", "session", "refresh"}

\* the prefix token stripped by the folder normalisation
SubstationPrefix == <<"s", "t">>

Unknown == <<"U", "n", "k", "n", "o", "w", "n">>

\* values of data.substation: absent, with the prefix, and without it but padded
Substations == { <<>>, <<"s", "t", "a", "'">>, <<" ", "a", "'", " ">> }

\* values of data.docNumber: absent, and two that differ in where "/" stands
DocNumbers == { <<>>, <<"1", "/", "2">>, <<"1", "2", "/">> }

\* names of folders that may already exist under the root
PreNames == { <<"a", "'">>, <<"s", "t", "a", "'">> }

\* file.originalname as multer reports it: the two bytes of one non-ASCII
\* letter, each read as a latin1 character, then ".pdf"
OriginalName == <<"%C3", "%A9", ".", "p", "d", "f">>

\* the data field: text JSON.parse rejects, the JSON text null, or a report
Unparsable == [kind |-> "unparsable", substation |-> <<>>, docNumber |-> <<>>]
Null == [kind |-> "null", substation |-> <<>>, docNumber |-> <<>>]
Reports == [kind : {"object"}, substation : Substations, docNumber : DocNumbers]
DataValues == {Unparsable, Null} \cup Reports

\* a wider choice of texts for the claims about names: a value of whitespace
\* only, the prefix alone, the prefix followed by whitespace
SubstationTexts == Substations \cup { <<" ">>, <<"s", "t">>, <<"s", "t", " ">> }
DocNumberTexts == DocNumbers \cup { <<" ">>, <<" ", "1", " ">>, <<"/">> }
TextReports == [kind : {"object"}, substation : SubstationTexts, docNumber : DocNumberTexts]

-----------------------------------------------------------------------------
(* Text helpers *)

IsSpace(c) == c = " "

RECURSIVE TrimStart(_)
TrimStart(s) ==
    IF s # <<>> /\ IsSpace(Head(s)) THEN TrimStart(Tail(s)) ELSE s

RECURSIVE TrimEnd(_)
TrimEnd(s) ==
    IF s # <<>> /\ IsSpace(s[Len(s)]) THEN TrimEnd(SubSeq(s, 1, Len(s) - 1)) ELSE s

\* String.prototype.trim
Trim(s) == TrimEnd(TrimStart(s))

StartsWith(s, p) == Len(s) >= Len(p) /\ SubSeq(s, 1, Len(p)) = p

\* s.replace(/^<prefix>/, "")
StripPrefix(s) ==
    IF StartsWith(s, SubstationPrefix)
    THEN SubSeq(s, Len(SubstationPrefix) + 1, Len(s))
    ELSE s

RECURSIVE ReplaceAll(_, _, _)
\* s.replace(/c/g, by) for a single character c
ReplaceAll(s, c, by) ==
    IF s = <<>> THEN <<>>
    ELSE (IF Head(s) = c THEN by ELSE <<Head(s)>>) \o ReplaceAll(Tail(s), c, by)

\* the character class [\\\/:*?"<>|]
UnsafeChars == {"\\", "/", ":", "*", "?", "\"", "<", ">", "|"}

RECURSIVE RemoveUnsafe(_)
\* s.replace(/[\\\/:*?"<>|]/g, "")
RemoveUnsafe(s) ==
    IF s = <<>> THEN <<>>
    ELSE (IF Head(s) \in UnsafeChars THEN <<>> ELSE <<Head(s)>>) \o RemoveUnsafe(Tail(s))

\* s.replace(/'/g, "\\'")
EscapeQuotes(s) == ReplaceAll(s, "'", <<"\\", "'">>)

RECURSIVE UnescapeQuery(_)
\* the store's reading of a quoted query literal: \' is a quote, \\ a backslash
UnescapeQuery(s) ==
    IF s = <<>> THEN <<>>
    ELSE IF Head(s) = "\\" /\ Len(s) >= 2
         THEN <<s[2]>> \o UnescapeQuery(SubSeq(s, 3, Len(s)))
         ELSE <<Head(s)>> \o UnescapeQuery(Tail(s))

\* JavaScript truthiness of a string
Truthy(s) == s # <<>>

\* a || b on strings
OrElse(a, b) == IF Truthy(a) THEN a ELSE b

RECURSIVE FixEncoding(_)
\* Buffer.from(name, 'latin1').toString('utf8'): the byte pair is decoded to the
\* letter it encodes, a stray high byte to the replacement character
FixEncoding(s) ==
    IF s = <<>> THEN <<>>
    ELSE IF StartsWith(s, <<"%C3", "%A9">>)
         THEN <<"e'">> \o FixEncoding(SubSeq(s, 3, Len(s)))
    ELSE IF Head(s) \in {"%C3", "%A9"}
         THEN <<"%FFFD">> \o FixEncoding(Tail(s))
    ELSE <<Head(s)>> \o FixEncoding(Tail(s))

-----------------------------------------------------------------------------
(* Messages and responses *)

NotAuthenticated == <<"Not authenticated">>
NotConfigured == <<"Google credentials not configured">>
SyntaxError == <<"SyntaxError">>
TypeError == <<"TypeError">>
MetaError == <<"spreadsheets.get failed">>
ListError == <<"files.list failed">>
CreateError == <<"folder create failed">>
UploadError == <<"file create failed">>
ReadError == <<"ENOENT">>
AppendError == <<"values.append failed">>

\* the marker written in the file-reference column
FailureMarker == <<"upload failed marker">>

\* uploadError = ` (...: ${err.message})`
UploadErrorText(msg) == <<" (file upload failed: ">> \o msg \o <<")">>

\* `... ${uploadError}`
WarningText(uploadError) == <<"saved to the sheet, but">> \o uploadError

Success == [status |-> 200, body |-> [success |-> TRUE]]
SuccessWithWarning(w) == [status |-> 200, body |-> [success |-> TRUE, warning |-> w]]
Error500(msg) == [status |-> 500, body |-> [error |-> msg]]

-----------------------------------------------------------------------------
(* Pure parts of the handler *)

MetaVariants == {"session", "refresh"}

\* getAuthenticatedClient of the deployed revision
GetAuthenticatedClient(v, e, s) ==
    CASE v = "refresh" ->
           IF e.oauth THEN [ok |-> TRUE, message |-> <<>>]
           ELSE IF e.service THEN [ok |-> TRUE, message |-> <<>>]
           ELSE [ok |-> FALSE, message |-> NotConfigured]
      [] v = "service" ->
           IF ~e.service THEN [ok |-> FALSE, message |-> NotConfigured]
           ELSE [ok |-> TRUE, message |-> <<>>]
      [] v = "session" ->
           IF ~s THEN [ok |-> FALSE, message |-> NotAuthenticated]
           ELSE [ok |-> TRUE, message |-> <<>>]

\* substationName of the refresh-token revision
SubstationName(data) ==
    Trim(StripPrefix(Trim(OrElse(data.substation, Unknown))))

\* the name literal placed in the lookup query
FolderQueryName(v, data) ==
    IF v = "refresh"
    THEN EscapeQuotes(SubstationName(data))
    ELSE EscapeQuotes(OrElse(data.substation, Unknown))

\* folderMetadata.name
FolderCreateName(v, data) ==
    IF v = "refresh"
    THEN SubstationName(data)
    ELSE OrElse(data.substation, Unknown)

cleanSubstation(data) == RemoveUnsafe(SubstationName(data))

cleanDocNumber(data) ==
    ReplaceAll(RemoveUnsafe(OrElse(data.docNumber, <<>>)), "/", <<"-">>)

\* fileName
FileName(v, data, originalname) ==
    IF v = "refresh"
    THEN IF Truthy(cleanDocNumber(data))
         THEN cleanDocNumber(data) \o <<"_">> \o cleanSubstation(data)
                  \o <<".", "p", "d", "f">>
         ELSE FixEncoding(originalname)
    ELSE IF Truthy(data.docNumber)
         THEN data.docNumber \o <<"_">> \o originalname
         ELSE originalname

\* webViewLink of a stored file
Link(id) == <<"link">> \o id

\* the marker written whenever there is no link, also when no file was attached
FileReferenceMarkerByDefault(v, l) == OrElse(l.fileUrl, FailureMarker)

\* the last field of the row
FileReference(v, l) ==
    IF v = "refresh"
    THEN OrElse(l.fileUrl, IF Truthy(l.uploadError) THEN FailureMarker ELSE <<>>)
    ELSE l.fileUrl

\* values[0]
Values(v, data, l) ==
    <<<<"timestamp">>, data.substation, data.docNumber,
      <<"equipmentId">>, <<"details">>>>
    \o (IF v = "refresh" THEN <<<<"detailsAI">>>> ELSE <<>>)
    \o <<<<"responsible">>, <<"status">>, <<"signedDate">>, FileReference(v, l)>>

\* the title of the first sheet of the spreadsheet
SheetTitle == <<"Sheet1">>
Titles == {SheetTitle, <<"R">>}

\* a range left at nine columns after detailsAI was added to the row
RangeNineColumns(v, l) ==
    [sheet |-> IF v \in MetaVariants THEN l.sheetName ELSE <<"Sheet1">>,
     columns |-> <<"A", "I">>]

\* the range of the append
Range(v, l) ==
    [sheet |-> IF v \in MetaVariants THEN l.sheetName ELSE <<"Sheet1">>,
     columns |-> IF v = "refresh" THEN <<"A", "J">> ELSE <<"A", "I">>]

\* an upload directory in which every request is stored under one name
FilePathShared(r) == <<"tmp", "upload">>

\* file.path: multer stores each upload under a name of its own
FilePath(r) == <<"tmp", r>>

InitLocal == [sheetName |-> <<>>, fileUrl |-> <<>>, uploadError |-> <<>>, folderId |-> <<>>]

\* what one step of the handler does to its request: the next position, the
\* locals, the responses sent and whether the temporary file is unlinked
Step(p, l, send, unlink) == [pc |-> p, local |-> l, send |-> send, unlink |-> unlink]

\* a catch block that swallows the error and reports success
FailSilently(l, msg) == Step("done", l, <<Success>>, "none")

\* the outer catch: res.status(500).json({ error: error.message })
Fail(l, msg) == Step("done", l, <<Error500(msg)>>, "none")

\* a file branch that starts over when a call failed
UploadFailedRetrying(v, l, msg) == Step("list", l, <<>>, "none")

\* an exception thrown inside the file branch
UploadFailed(v, l, msg) ==
    IF v = "refresh"
    THEN Step("append", [l EXCEPT !.uploadError = UploadErrorText(msg)], <<>>, "guarded")
    ELSE Fail(l, msg)

\* a file branch that uploads before the folder was looked up
AfterSheetNameUploadingFirst(v, in, l) ==
    IF in.hasFile /\ in.data # Null THEN Step("upload", l, <<>>, "none")
    ELSE IF in.data = Null THEN Fail(l, TypeError)
    ELSE Step("append", l, <<>>, "none")

\* from the sheet name to the first file-store call, or to the append
AfterSheetName(v, in, l) ==
    IF in.hasFile
    THEN IF in.data = Null
         THEN IF v = "refresh"
              THEN Step("done", [l EXCEPT !.uploadError = UploadErrorText(TypeError)],
                        <<Error500(TypeError)>>, "guarded")
              ELSE Fail(l, TypeError)
         ELSE Step("list", l, <<>>, "none")
    ELSE IF in.data = Null THEN Fail(l, TypeError)
         ELSE Step("append", l, <<>>, "none")

\* an entry that goes to the file branch without reading the metadata
AfterEntrySkippingRead(v, e, s, in, l) ==
    LET auth == GetAuthenticatedClient(v, e, s) IN
    IF ~auth.ok THEN Fail(l, auth.message)
    ELSE IF in.data = Unparsable THEN Fail(l, SyntaxError)
    ELSE AfterSheetName(v, in, [l EXCEPT !.sheetName = <<"Sheet1">>])

\* an entry that goes on without a client
AfterEntryIgnoringAuth(v, e, s, in, l) ==
    IF in.data = Unparsable THEN Fail(l, SyntaxError)
    ELSE IF v \in MetaVariants THEN Step("meta", l, <<>>, "none")
    ELSE AfterSheetName(v, in, l)

\* from the handler's entry to its first external call
AfterEntry(v, e, s, in, l) ==
    LET auth == GetAuthenticatedClient(v, e, s) IN
    IF ~auth.ok THEN Fail(l, auth.message)
    ELSE IF in.data = Unparsable THEN Fail(l, SyntaxError)
    ELSE IF v \in MetaVariants THEN Step("meta", l, <<>>, "none")
    ELSE AfterSheetName(v, in, l)

\* an upload whose link is not kept
AfterUploadDroppingLink(v, l, link) ==
    Step("append", l, <<>>, IF v = "refresh" THEN "guarded" ELSE "plain")

\* after the upload call returned
AfterUpload(v, l, link) ==
    Step("append", [l EXCEPT !.fileUrl = link], <<>>,
         IF v = "refresh" THEN "guarded" ELSE "plain")

\* a response that forgets the recorded upload error
AfterAppendWithoutWarning(v, l) == Step("done", l, <<Success>>, "none")

\* after the append call returned
AfterAppend(v, l) ==
    IF v = "refresh" /\ Truthy(l.uploadError)
    THEN Step("done", l, <<SuccessWithWarning(WarningText(l.uploadError))>>, "none")
    ELSE Step("done", l, <<Success>>, "none")

\* a handler that deletes its upload when the append failed
FilesAfterAppendCompensating(fs, r, ok) ==
    IF ok THEN fs ELSE {f \in fs : f.id # <<"file", r>>}

\* the files of the store after values.append returned: the handler issues no
\* call on the store after the append, whatever its outcome
FilesAfterAppend(fs, r, ok) == fs

\* a store that refuses a second folder of the same name
FoldersAfterCreateUnique(fs, id, name) ==
    IF \E f \in fs : f.name = name THEN fs ELSE fs \cup {[id |-> id, name |-> name]}

\* the root after drive.files.create of a folder: the store adds it, whatever
\* its name
FoldersAfterCreate(fs, id, name) == fs \cup {[id |-> id, name |-> name]}

-----------------------------------------------------------------------------
(* State *)

\* the folders the root may hold before the first save
PreFolderSets ==
    UNION { { { [id |-> <<"pre", ToString(i)>>, name |-> f[i]] : i \in 1..n }
              : f \in [1..n -> PreNames] }
            : n \in 0..MaxPreFolders }

\* the ids the deployment is meant to run with, and those with one missing
AllIds == {[sheetId |-> TRUE, rootId |-> TRUE]}
MissingIds == [sheetId : BOOLEAN, rootId : BOOLEAN] \ AllIds

\* the outcomes a call can have whatever the spreadsheet id
CallOutcomesIgnoringIds(e, op) == BOOLEAN

\* the outcomes a call can have: any call may fail; a call on the spreadsheet
\* is rejected when no spreadsheet id is passed
CallOutcomes(e, op) ==
    IF op \in {"get", "append"} /\ ~e.sheetId THEN {FALSE} ELSE BOOLEAN

\* the reply of /api/auth/status for any session
IsAuthenticatedAlways(s) == TRUE

\* the reply of /api/auth/status
IsAuthenticated(s) == s

\* a callback that leaves the session without tokens when the exchange fails
SessionAfterCallbackClearing(s, ok) == ok

\* req.session.tokens after /auth/callback: assigned only when getToken resolved
SessionAfterCallback(s, ok) == IF ok THEN TRUE ELSE s

\* the reply of /auth/callback: the closing page, or 500 "Authentication failed"
CallbackReply(ok) ==
    IF ok THEN [status |-> 200, body |-> <<"Authentication successful">>]
    ELSE [status |-> 500, body |-> <<"Authentication failed">>]

\* the value of callback in the runs that do not observe the replies
Unobserved == <<[status |-> 0, body |-> <<>>]>>

\* the files the user may pick, and the form's state before any of them
Files == {"f1", "f2"}
NoFile == "none"
INITIAL_DATA == [src |-> NoFile, edited |-> FALSE]
NoResult == [status |-> 0, body |-> [none |-> TRUE]]

\* the component's state at mount; key: whether GEMINI_API_KEY is set
InitialForm(key) ==
    [apiKey |-> key, isExtracting |-> FALSE, isSaving |-> FALSE,
     repairData |-> INITIAL_DATA, selectedFile |-> NoFile, message |-> "none",
     extractions |-> <<>>, fetches |-> <<>>, timers |-> <<>>,
     result |-> NoResult, saves |-> 0]

Start(ids) ==
    /\ variant \in Variants
    /\ env \in [oauth : BOOLEAN, service : BOOLEAN, sheetId : BOOLEAN, rootId : BOOLEAN]
    /\ [sheetId |-> env.sheetId, rootId |-> env.rootId] \in ids
    /\ title = SheetTitle
    /\ status = <<>>
    /\ (variant = "service" => ~env.oauth)
    /\ (variant = "session" => ~env.oauth /\ ~env.service)
    /\ session \in BOOLEAN
    /\ (variant # "session" => ~session)
    /\ folders \in PreFolderSets
    /\ files = {}
    /\ rows = <<>>
    /\ tmp = {}
    /\ pc = [r \in Reqs |-> "idle"]
    /\ input = [r \in Reqs |-> [hasFile |-> FALSE, data |-> Null]]
    /\ local = [r \in Reqs |-> InitLocal]
    /\ calls = [r \in Reqs |-> <<>>]
    /\ unlinks = [r \in Reqs |-> <<>>]
    /\ responses = [r \in Reqs |-> <<>>]

Init == Start(AllIds) /\ callback = Unobserved /\ form = InitialForm(TRUE)

\* the effect of one handler step on its own request
Apply(r, st) ==
    LET del == \/ st.unlink = "plain"
               \/ st.unlink = "guarded" /\ FilePath(r) \in tmp
    IN /\ pc' = [pc EXCEPT ![r] = st.pc]
       /\ local' = [local EXCEPT ![r] = st.local]
       /\ responses' = [responses EXCEPT ![r] = @ \o st.send]
       /\ tmp' = IF del THEN tmp \ {FilePath(r)} ELSE tmp
       /\ unlinks' = [unlinks EXCEPT ![r] = IF del THEN Append(@, FilePath(r)) ELSE @]

\* history: the call, whether it succeeded, its argument, and the message of the
\* error it raised (empty when it succeeded)
Log(r, op, ok, arg, err) ==
    calls' = [calls EXCEPT ![r] =
                 Append(@, [op |-> op, ok |-> ok, arg |-> arg,
                            err |-> IF ok THEN <<>> ELSE err])]

-----------------------------------------------------------------------------
(* Operations *)

\* a save request arrives: multer stores the attached file, if any
Arrive(r) ==
    /\ pc[r] = "idle"
    /\ \A e \in Earlier(r) : pc[e] # "idle"
    /\ \E f \in BOOLEAN, d \in DataValues :
         /\ input' = [input EXCEPT ![r] = [hasFile |-> f, data |-> d]]
         /\ tmp' = IF f THEN tmp \cup {FilePath(r)} ELSE tmp
    /\ pc' = [pc EXCEPT ![r] = "entry"]
    /\ UNCHANGED <<variant, env, title, status, callback, form, session, folders, files, rows,
                   local, calls, unlinks, responses>>

\* the handler runs from its entry to its first external call
Begin(r) ==
    /\ pc[r] = "entry"
    /\ LET auth == GetAuthenticatedClient(variant, env, session)
       IN Log(r, "auth", auth.ok, IF session THEN <<"tokens">> ELSE <<>>, auth.message)
    /\ Apply(r, AfterEntry(variant, env, session, input[r], local[r]))
    /\ UNCHANGED <<variant, env, title, status, callback, form, session, folders, files, rows, input>>

\* sheets.spreadsheets.get, and the code up to the next call
GetSpreadsheet(r) ==
    /\ pc[r] = "meta"
    /\ \E ok \in CallOutcomes(env, "get") :
         /\ Log(r, "get", ok, title, MetaError)
         /\ IF ok
            THEN Apply(r, AfterSheetName(variant, input[r],
                           [local[r] EXCEPT !.sheetName = OrElse(title, <<"Sheet1">>)]))
            ELSE Apply(r, Fail(local[r], MetaError))
    /\ UNCHANGED <<variant, env, title, status, callback, form, session, folders, files, rows, input>>

\* drive.files.list for the substation folder
ListFolders(r) ==
    /\ pc[r] = "list"
    /\ LET q == FolderQueryName(variant, input[r].data)
           found == {f \in folders : env.rootId /\ f.name = UnescapeQuery(q)}
       IN \E ok \in CallOutcomes(env, "list") :
            /\ Log(r, "list", ok, q, ListError)
            /\ IF ~ok THEN Apply(r, UploadFailed(variant, local[r], ListError))
               ELSE IF found # {}
               THEN \E f \in found :
                      Apply(r, Step("upload", [local[r] EXCEPT !.folderId = f.id], <<>>, "none"))
               ELSE Apply(r, Step("mkdir", local[r], <<>>, "none"))
    /\ UNCHANGED <<variant, env, title, status, callback, form, session, folders, files, rows, input>>

\* drive.files.create for a new folder
CreateFolder(r) ==
    /\ pc[r] = "mkdir"
    /\ LET name == FolderCreateName(variant, input[r].data)
           id == <<"dir", r>>
       IN \E ok \in CallOutcomes(env, "mkdir") :
            /\ Log(r, "mkdir", ok, name, CreateError)
            /\ IF ok
               THEN /\ folders' = IF env.rootId THEN FoldersAfterCreate(folders, id, name)
                                  ELSE folders
                    /\ Apply(r, Step("upload", [local[r] EXCEPT !.folderId = id], <<>>, "none"))
               ELSE /\ folders' = folders
                    /\ Apply(r, UploadFailed(variant, local[r], CreateError))
    /\ UNCHANGED <<variant, env, title, status, callback, form, session, files, rows, input>>

\* drive.files.create for the file, streamed from the temporary file
UploadFile(r) ==
    /\ pc[r] = "upload"
    /\ LET name == FileName(variant, input[r].data, OriginalName)
           id == <<"file", r>>
       IN \E ok \in CallOutcomes(env, "upload") :
            /\ Log(r, "upload", ok /\ FilePath(r) \in tmp, name,
                   IF FilePath(r) \in tmp THEN UploadError ELSE ReadError)
            /\ IF FilePath(r) \notin tmp
               THEN /\ files' = files
                    /\ Apply(r, UploadFailed(variant, local[r], ReadError))
               ELSE IF ok
               THEN /\ files' = files \cup {[id |-> id, name |-> name,
                                             parent |-> local[r].folderId,
                                             content |-> FilePath(r)]}
                    /\ Apply(r, AfterUpload(variant, local[r], Link(id)))
               ELSE /\ files' = files
                    /\ Apply(r, UploadFailed(variant, local[r], UploadError))
    /\ UNCHANGED <<variant, env, title, status, callback, form, session, folders, rows, input>>

\* sheets.spreadsheets.values.append, and the response
AppendRow(r) ==
    /\ pc[r] = "append"
    /\ LET row == [by |-> r, range |-> Range(variant, local[r]),
                   values |-> Values(variant, input[r].data, local[r])]
       IN \E ok \in {o \in CallOutcomes(env, "append") : o => row.range.sheet = title} :
            /\ Log(r, "append", ok, row.values[Len(row.values)], AppendError)
            /\ files' = FilesAfterAppend(files, r, ok)
            /\ IF ok
               THEN /\ rows' = Append(rows, row)
                    /\ Apply(r, AfterAppend(variant, local[r]))
               ELSE /\ rows' = rows
                    /\ Apply(r, Fail(local[r], AppendError))
    /\ UNCHANGED <<variant, env, title, status, callback, form, session, folders, input>>

\* session variant: /auth/callback exchanges the code, stores the tokens of a
\* successful exchange and replies
AuthCallback ==
    /\ variant = "session"
    /\ \E ok \in BOOLEAN :
         /\ session' = SessionAfterCallback(session, ok)
         /\ callback' = IF callback = Unobserved THEN callback ELSE <<CallbackReply(ok)>>
    /\ UNCHANGED <<variant, env, title, status, form, folders, files, rows, tmp,
                   pc, input, local, calls, unlinks, responses>>

\* session variant: /api/auth/logout destroys the session
Logout ==
    /\ variant = "session"
    /\ session' = FALSE
    /\ UNCHANGED <<variant, env, title, status, callback, form, folders, files, rows, tmp,
                   pc, input, local, calls, unlinks, responses>>

\* session variant: /api/auth/status reports whether the session holds tokens
AuthStatus ==
    /\ variant = "session"
    /\ status' = <<IsAuthenticated(session)>>
    /\ UNCHANGED <<variant, env, title, callback, form, session, folders, files, rows, tmp,
                   pc, input, local, calls, unlinks, responses>>

\* the owner of the spreadsheet renames its first tab
RenameTab ==
    /\ \E t \in Titles \ {title} : title' = t
    /\ UNCHANGED <<variant, env, status, callback, form, session, folders, files, rows, tmp,
                   pc, input, local, calls, unlinks, responses>>

\* a save request arrives whose report is drawn from the wider choice of texts
ArriveText(r) ==
    /\ pc[r] = "idle"
    /\ Earlier(r) = {}
    /\ \E f \in BOOLEAN, d \in TextReports :
         /\ input' = [input EXCEPT ![r] = [hasFile |-> f, data |-> d]]
         /\ tmp' = IF f THEN tmp \cup {FilePath(r)} ELSE tmp
    /\ pc' = [pc EXCEPT ![r] = "entry"]
    /\ UNCHANGED <<variant, env, title, status, callback, form, session, folders, files, rows,
                   local, calls, unlinks, responses>>

\* a save request arrives while no other is being handled
ArriveAlone(r) ==
    /\ \A o \in Reqs \ {r} : pc[o] \in {"idle", "done"}
    /\ Arrive(r)

Next ==
    \/ \E r \in Reqs : Arrive(r)
    \/ \E r \in Reqs : Begin(r)
    \/ \E r \in Reqs : GetSpreadsheet(r)
    \/ \E r \in Reqs : ListFolders(r)
    \/ \E r \in Reqs : CreateFolder(r)
    \/ \E r \in Reqs : UploadFile(r)
    \/ \E r \in Reqs : AppendRow(r)
    \/ AuthCallback
    \/ Logout

Spec == Init /\ [][Next]_vars

\* the handler's steps other than the arrival of a request
Handle ==
    \/ \E r \in Reqs : Begin(r)
    \/ \E r \in Reqs : GetSpreadsheet(r)
    \/ \E r \in Reqs : ListFolders(r)
    \/ \E r \in Reqs : CreateFolder(r)
    \/ \E r \in Reqs : UploadFile(r)
    \/ \E r \in Reqs : AppendRow(r)
    \/ AuthCallback
    \/ Logout

\* saves run one after the other
NextSequential ==
    \/ \E r \in Reqs : ArriveAlone(r)
    \/ Handle

SpecSequential == Init /\ [][NextSequential]_vars

\* a deployment with a configuration id missing
InitConfig == Start(MissingIds) /\ callback = Unobserved /\ form = InitialForm(TRUE)

SpecConfig == InitConfig /\ [][Next]_vars

\* the first tab of the spreadsheet is renamed while the server runs, saves
\* running one after the other
NextSheet ==
    \/ NextSequential
    \/ RenameTab

SpecSheet == Init /\ [][NextSheet]_vars

\* the session revision, with its status route
InitAuth == Init /\ variant = "session"

NextAuth ==
    \/ Next
    \/ AuthStatus

SpecAuth == InitAuth /\ [][NextAuth]_vars

\* the session revision, the replies of its callback route observed
InitCallback ==
    /\ Start(AllIds) /\ callback = <<>> /\ form = InitialForm(TRUE)
    /\ variant = "session"

SpecCallback == InitCallback /\ [][Next]_vars

\* the save handler with the wider choice of report texts, one request
NextText ==
    \/ \E r \in Reqs : ArriveText(r)
    \/ Handle

SpecText == Init /\ [][NextText]_vars

-----------------------------------------------------------------------------
(* The web form *)

\* number of saves the user starts
MaxSaves == 2

\* fetch rejected, or the body of the response is not JSON
FetchFailed == [status |-> 0, body |-> [failed |-> TRUE]]

\* what a save request may come back with
SaveResults ==
    {Success, SuccessWithWarning(WarningText(UploadErrorText(UploadError))),
     Error500(AppendError), FetchFailed}

\* repairData after a successful extraction from file f, and after an edit
Extracted(f) == [src |-> f, edited |-> FALSE]
Edited(d) == [d EXCEPT !.edited = TRUE]

\* the file and the data the form holds; kept with each scheduled reset
Held(fm) == [file |-> fm.selectedFile, data |-> fm.repairData]

\* extractData up to its first await
StartExtraction(fm, f) ==
    IF ~fm.apiKey THEN [fm EXCEPT !.message = "noKey"]
    ELSE [fm EXCEPT !.isExtracting = TRUE, !.message = "none",
                    !.extractions = Append(@, f)]

\* a save handler that resets the form on every response with success: true
AfterSaveResultResettingOnWarning(fm, result) ==
    [fm EXCEPT !.isSaving = FALSE, !.fetches = Tail(@), !.result = result,
               !.message = IF result = Success THEN "success"
                           ELSE IF result = FetchFailed THEN "error"
                           ELSE IF "success" \in DOMAIN result.body THEN "warning"
                           ELSE "error",
               !.timers = IF result # FetchFailed /\ "success" \in DOMAIN result.body
                          THEN Append(@, Held(fm)) ELSE @]

\* handleSave from the response of fetch to its end
AfterSaveResult(fm, result) ==
    LET done == [fm EXCEPT !.isSaving = FALSE, !.fetches = Tail(@), !.result = result]
    IN IF result = FetchFailed THEN [done EXCEPT !.message = "error"]
       ELSE IF "success" \in DOMAIN result.body /\ result.body.success
       THEN IF "warning" \in DOMAIN result.body /\ Truthy(result.body.warning)
            THEN [done EXCEPT !.message = "warning"]
            ELSE [done EXCEPT !.message = "success",
                              !.timers = Append(@, Held(fm))]
       ELSE [done EXCEPT !.message = "error"]

ServerUnchanged ==
    UNCHANGED <<variant, env, title, status, callback, session, folders, files, rows,
                tmp, pc, input, local, calls, unlinks, responses>>

\* the user picks a file: handleFileChange, processFile, extractData
SelectFile ==
    /\ ~form.isExtracting
    /\ \E f \in Files :
         form' = StartExtraction([form EXCEPT !.selectedFile = f], f)
    /\ ServerUnchanged

\* the extraction request returns
ExtractionDone ==
    /\ form.extractions # <<>>
    /\ \E ok \in BOOLEAN :
         form' = [form EXCEPT !.extractions = Tail(@),
                              !.isExtracting = FALSE,
                              !.repairData = IF ok THEN Extracted(Head(form.extractions))
                                             ELSE @,
                              !.message = IF ok THEN @ ELSE "extractFailed"]
    /\ ServerUnchanged

\* the user edits a field
EditField ==
    /\ form' = [form EXCEPT !.repairData = Edited(@)]
    /\ ServerUnchanged

\* the clear button
ClearForm ==
    /\ form.selectedFile # NoFile
    /\ form' = [form EXCEPT !.selectedFile = NoFile, !.repairData = INITIAL_DATA]
    /\ ServerUnchanged

\* the save button: handleSave up to the fetch
HandleSave ==
    /\ ~form.isSaving /\ ~form.isExtracting /\ form.selectedFile # NoFile
    /\ form.saves < MaxSaves
    /\ form' = [form EXCEPT !.isSaving = TRUE, !.message = "none",
                            !.saves = @ + 1,
                            !.fetches = Append(@, Held(form))]
    /\ ServerUnchanged

\* the save request returns
SaveReturns ==
    /\ form.fetches # <<>>
    /\ \E result \in SaveResults : form' = AfterSaveResult(form, result)
    /\ ServerUnchanged

\* the reset scheduled by a fully successful save fires
ResetTimerFires ==
    /\ form.timers # <<>>
    /\ form' = [form EXCEPT !.timers = Tail(@), !.repairData = INITIAL_DATA,
                            !.selectedFile = NoFile, !.message = "none"]
    /\ ServerUnchanged

InitForm ==
    /\ Start(AllIds) /\ callback = Unobserved
    /\ variant = "refresh" /\ env.oauth /\ env.service /\ folders = {}
    /\ form \in {InitialForm(key) : key \in BOOLEAN}

NextForm ==
    \/ SelectFile
    \/ ExtractionDone
    \/ EditField
    \/ ClearForm
    \/ HandleSave
    \/ SaveReturns
    \/ ResetTimerFires

SpecForm == InitForm /\ [][NextForm]_vars

-----------------------------------------------------------------------------
(* Vocabulary of the properties *)

\* the revision the specification describes (upload failures contained, names
\* normalized); MetaVariants are the two revisions the claims name as code
Latest == "refresh"

Done(r) == pc[r] = "done"
CallsOf(r, op) == {i \in DOMAIN calls[r] : calls[r][i].op = op}
Succeeded(r, op) == \E i \in CallsOf(r, op) : calls[r][i].ok
Failed(r, op) == \E i \in CallsOf(r, op) : ~calls[r][i].ok
RowsBy(r) == {i \in DOMAIN rows : rows[i].by = r}
Last(s) == s[Len(s)]
FileStoreOps == {"list", "mkdir", "upload"}

\* a call of the folder-resolve/upload sub-sequence failed
UploadStepFailed(r) == \E op \in FileStoreOps : Failed(r, op)

IsReport(r) == input[r].data.kind = "object"
IsPlainSuccess(resp) == resp = Success
IsWarning(resp) ==
    /\ resp.status = 200
    /\ DOMAIN resp.body = {"success", "warning"}
    /\ resp.body.success
IsError(resp) == resp.status = 500 /\ DOMAIN resp.body = {"error"}

Contains(s, part) ==
    \E i \in 1..(Len(s) + 1) : \E j \in (i - 1)..Len(s) : SubSeq(s, i, j) = part

-----------------------------------------------------------------------------
(* C1 *)

\* C1: in the revisions named by the claim, a save with an attached file whose folder-resolve/upload step failed (and
\* whose append did not fail) ends with its temporary file deleted, a row of
\* its own carrying the failure marker in the last column, and the response
\* 200 {success:true, warning}.
C1_UploadFailureContained ==
    \A r \in Reqs :
        (variant \in MetaVariants /\ Done(r) /\ input[r].hasFile /\ UploadStepFailed(r) /\ ~Failed(r, "append"))
        => /\ FilePath(r) \notin tmp
           /\ \E i \in RowsBy(r) : Last(rows[i].values) = FailureMarker
           /\ Len(responses[r]) = 1 /\ IsWarning(responses[r][1])

-----------------------------------------------------------------------------
(* C2 *)

\* C2: a save whose spreadsheet metadata read or append failed answered
\* 500 {error} and left no row of its own in the sheet; rows are only ever added
\* whole, by a successful append.
C2_RecorderFailureWritesNothing ==
    \A r \in Reqs :
        (Done(r) /\ (Failed(r, "get") \/ Failed(r, "append")))
        => /\ Len(responses[r]) = 1 /\ IsError(responses[r][1])
           /\ responses[r][1].body.error \in {MetaError, AppendError}
           /\ RowsBy(r) = {}

\* C2 witness: the append failed after the file had been uploaded.
C2_Witness ==
    \E r \in Reqs : Done(r) /\ Failed(r, "append") /\ Succeeded(r, "upload")

-----------------------------------------------------------------------------
(* C3 *)

\* C3 as stated: every finished save without a file issued no file-store call,
\* appended a row with an empty file reference and answered plain success.
C3_NoFileAlwaysPlainSuccess ==
    \A r \in Reqs :
        (Done(r) /\ ~input[r].hasFile)
        => /\ \A op \in FileStoreOps : CallsOf(r, op) = {}
           /\ \E i \in RowsBy(r) : Last(rows[i].values) = <<>>
           /\ responses[r] = <<Success>>

\* C3 amended: a save without a file never issues a folder lookup, folder create
\* or upload, every append it issues and every row it writes carries the empty
\* string as file reference, and it never answers with a warning; when the
\* client was obtained, the data is a report and the metadata read and the
\* append did not fail, it wrote exactly one row and answered plain success.
C3_NoFile ==
    \A r \in Reqs :
        (pc[r] # "idle" /\ ~input[r].hasFile)
        => /\ \A op \in FileStoreOps : CallsOf(r, op) = {}
           /\ \A i \in CallsOf(r, "append") : calls[r][i].arg = <<>>
           /\ \A i \in RowsBy(r) : Last(rows[i].values) = <<>>
           /\ \A i \in DOMAIN responses[r] : ~IsWarning(responses[r][i])
           /\ (Done(r) /\ Succeeded(r, "auth") /\ IsReport(r)
                 /\ ~Failed(r, "get") /\ ~Failed(r, "append"))
              => /\ Cardinality(RowsBy(r)) = 1
                 /\ responses[r] = <<Success>>

\* C3 witness: a save without a file wrote its row and answered plain success.
C3_Witness ==
    \E r \in Reqs :
        /\ Done(r) /\ ~input[r].hasFile
        /\ RowsBy(r) # {}
        /\ responses[r] = <<Success>>

-----------------------------------------------------------------------------
(* C4 *)

\* C4: in the refresh-token revision, every finished save that arrived with a file has deleted its temporary
\* file exactly once.
C4_TempFileDeletedOnce ==
    \A r \in Reqs :
        (variant = Latest /\ Done(r) /\ input[r].hasFile)
        => /\ unlinks[r] = <<FilePath(r)>>
           /\ FilePath(r) \notin tmp

-----------------------------------------------------------------------------
(* C5 *)

\* C5: in the revisions named by the claim, every finished save that obtained an authorized client (and whose data
\* was a report and whose metadata read did not fail) attempted the row append
\* exactly once, with the upload's link, the empty string or the failure marker
\* as file reference.
C5_AppendAttemptedOnce ==
    \A r \in Reqs :
        (variant \in MetaVariants /\ Done(r) /\ Succeeded(r, "auth") /\ IsReport(r) /\ ~Failed(r, "get"))
        => /\ Cardinality(CallsOf(r, "append")) = 1
           /\ \A i \in CallsOf(r, "append") :
                calls[r][i].arg \in {Link(<<"file", r>>), <<>>, FailureMarker}

-----------------------------------------------------------------------------
(* C6 *)

\* C6: a save sends no response before it ends and exactly one when it ends;
\* the response is 200 {success:true}, 200 {success:true, warning} or
\* 500 {error}; it carries a warning exactly when a file was attached, a call of
\* the folder-resolve/upload sub-sequence failed and the append succeeded; the
\* warning text contains the message of the call that failed.
C6_OneResponseWarningIff ==
    \A r \in Reqs :
        /\ Len(responses[r]) = (IF Done(r) THEN 1 ELSE 0)
        /\ Done(r) =>
             LET resp == responses[r][1] IN
             /\ IsPlainSuccess(resp) \/ IsWarning(resp) \/ IsError(resp)
             /\ IsWarning(resp) <=>
                  (input[r].hasFile /\ UploadStepFailed(r) /\ Succeeded(r, "append"))
             /\ IsWarning(resp) =>
                  \E op \in FileStoreOps : \E i \in CallsOf(r, op) :
                      ~calls[r][i].ok /\ Contains(resp.body.warning, calls[r][i].err)

\* C6 witness: a save ended with a warning after its upload call failed.
C6_Witness ==
    \E r \in Reqs :
        Done(r) /\ Failed(r, "upload") /\ IsWarning(responses[r][1])

-----------------------------------------------------------------------------
(* C7 *)

\* the configuration, or the session read at the handler's entry, yields no client
NoClient(r) ==
    \/ variant = "refresh" /\ ~env.oauth /\ ~env.service
    \/ variant = "service" /\ ~env.service
    \/ variant = "session" /\ \E i \in CallsOf(r, "auth") : calls[r][i].arg = <<>>

\* C7: a save that could obtain no authorized client (credentials not configured,
\* no session tokens) ends at once with 500 and the message of that error, and
\* has issued no call to the file store or the spreadsheet: it created no
\* folder, uploaded no file and appended no row.
C7_NoClientNoCalls ==
    \A r \in Reqs :
        (pc[r] \notin {"idle", "entry"} /\ NoClient(r))
        => /\ Done(r)
           /\ responses[r] \in {<<Error500(NotConfigured)>>, <<Error500(NotAuthenticated)>>}
           /\ responses[r][1].body.error =
                (IF variant = "session" THEN NotAuthenticated ELSE NotConfigured)
           /\ \A i \in DOMAIN calls[r] : calls[r][i].op = "auth"
           /\ \A f \in folders : f.id # <<"dir", r>>
           /\ \A f \in files : f.id # <<"file", r>>
           /\ RowsBy(r) = {}

\* C7 witness: a save with a file attached was refused for want of a client.
C7_Witness ==
    \E r \in Reqs : Done(r) /\ NoClient(r) /\ input[r].hasFile

-----------------------------------------------------------------------------
(* C8 *)

\* C8: in the revisions named by the claim, when the lookup of a save found a folder, the save issues no create call
\* and uploads into a folder bearing the normalized name (trimmed, prefix
\* stripped); when it found none, the save issues exactly one create call, and
\* the name it creates is the normalized one, not the raw input.
C8_FolderResolver ==
    \A r \in Reqs :
        (variant \in MetaVariants /\ Succeeded(r, "list") /\ pc[r] # "mkdir")
        => LET name == SubstationName(input[r].data) IN
           /\ Cardinality(CallsOf(r, "mkdir")) <= 1
           /\ \A i \in CallsOf(r, "mkdir") : calls[r][i].arg = name
           /\ (CallsOf(r, "mkdir") = {} /\ local[r].folderId # <<>>)
              => \E f \in folders : f.id = local[r].folderId /\ f.name = name

-----------------------------------------------------------------------------
(* C9 *)

\* sanitize of the specification, for a docNumber: "/" becomes "-", the other
\* path-unsafe characters are dropped
SanitizeDocNumber(d) == RemoveUnsafe(ReplaceAll(d, "/", <<"-">>))

\* C9: in the refresh-token revision, a file uploaded for a report with a non-empty docNumber D and substation
\* S is named sanitize(D) + "_" + sanitize(strip_prefix(S)) + ".pdf", and the
\* name holds none of the path-unsafe characters.
C9_FileName ==
    \A r \in Reqs : \A i \in CallsOf(r, "upload") :
        (variant = Latest /\ input[r].data.docNumber # <<>>)
        => /\ calls[r][i].arg =
                SanitizeDocNumber(input[r].data.docNumber) \o <<"_">>
                \o RemoveUnsafe(SubstationName(input[r].data)) \o <<".", "p", "d", "f">>
           /\ \A k \in DOMAIN calls[r][i].arg : calls[r][i].arg[k] \notin UnsafeChars

-----------------------------------------------------------------------------
(* C10 *)

\* C10: in the refresh-token revision, the name of an uploaded file starts with the docNumber in which every
\* "/" is replaced by "-", followed by "_"; two uploads for the same substation
\* whose docNumbers differ never bear the same name.
C10_SlashBecomesDash ==
    /\ \A r \in Reqs : \A i \in CallsOf(r, "upload") :
         (variant = Latest /\ input[r].data.docNumber # <<>>)
         => StartsWith(calls[r][i].arg,
                       ReplaceAll(input[r].data.docNumber, "/", <<"-">>) \o <<"_">>)
    /\ \A r1, r2 \in Reqs : \A i \in CallsOf(r1, "upload") : \A j \in CallsOf(r2, "upload") :
         (/\ variant = Latest
          /\ input[r1].data.substation = input[r2].data.substation
          /\ input[r1].data.docNumber # input[r2].data.docNumber
          /\ input[r1].data.docNumber # <<>> /\ input[r2].data.docNumber # <<>>)
         => calls[r1][i].arg # calls[r2][j].arg

-----------------------------------------------------------------------------
(* C11 *)

\* C11: a finished save with a file whose upload and append calls (hence all
\* its calls) succeeded wrote exactly one row, whose last field is the view
\* link of the file this request uploaded, and answered plain success.
C11_RowCarriesUploadLink ==
    \A r \in Reqs :
        (Done(r) /\ input[r].hasFile /\ Succeeded(r, "upload") /\ Succeeded(r, "append"))
        => /\ \A i \in DOMAIN calls[r] : calls[r][i].ok
           /\ Cardinality(RowsBy(r)) = 1
           /\ \A i \in RowsBy(r) :
                \E f \in files : /\ f.content = FilePath(r)
                                 /\ Last(rows[i].values) = Link(f.id)
           /\ responses[r] = <<Success>>

\* C11 witness: a save with a file went through with every call succeeding.
C11_Witness ==
    \E r \in Reqs :
        /\ Done(r) /\ input[r].hasFile
        /\ Succeeded(r, "upload") /\ Succeeded(r, "append")
        /\ RowsBy(r) # {}

-----------------------------------------------------------------------------
(* C12 *)

\* the order in which the handler issues its calls
Rank(op) ==
    CASE op = "auth" -> 0 [] op = "get" -> 1 [] op = "list" -> 2
      [] op = "mkdir" -> 3 [] op = "upload" -> 4 [] op = "append" -> 5

\* the call a request is suspended on, if any
Pending(r) ==
    CASE pc[r] = "meta" -> {"get"}
      [] pc[r] \in {"list", "mkdir", "upload", "append"} -> {pc[r]}
      [] OTHER -> {}

\* C12: the calls of one request are one after the other: the call a request
\* is suspended on was issued after every earlier call of the request had
\* completed, and the completed calls are in the order lookup, create, upload,
\* append; an upload is only issued after the lookup (and the create, if any)
\* succeeded, and with a file attached the append is only issued after the
\* upload completed or the sub-sequence failed.
C12_CallsStrictlyOrdered ==
    \A r \in Reqs :
        /\ \A i, j \in DOMAIN calls[r] :
             i < j => Rank(calls[r][i].op) < Rank(calls[r][j].op)
        /\ \A op \in Pending(r) : \A i \in DOMAIN calls[r] : Rank(calls[r][i].op) < Rank(op)
        /\ (CallsOf(r, "upload") # {} \/ "upload" \in Pending(r))
           => /\ Succeeded(r, "list")
              /\ \A i \in CallsOf(r, "mkdir") : calls[r][i].ok
              /\ local[r].folderId # <<>>
        /\ ((CallsOf(r, "append") # {} \/ "append" \in Pending(r)) /\ input[r].hasFile)
           => (CallsOf(r, "upload") # {} \/ Failed(r, "list") \/ Failed(r, "mkdir"))

\* C12 witness: a request issued lookup, create, upload and append.
C12_Witness ==
    \E r \in Reqs :
        /\ CallsOf(r, "list") # {} /\ CallsOf(r, "mkdir") # {}
        /\ CallsOf(r, "upload") # {} /\ CallsOf(r, "append") # {}

-----------------------------------------------------------------------------
(* C13 *)

\* C13: in the revisions named by the claim, a finished save with a file whose
\* folder lookup or folder create failed (and whose append did not fail)
\* attempted no upload, wrote a row with the failure marker and answered
\* success with a warning.
C13_FolderFailureContained ==
    \A r \in Reqs :
        (/\ variant \in MetaVariants /\ Done(r) /\ input[r].hasFile
         /\ (Failed(r, "list") \/ Failed(r, "mkdir")) /\ ~Failed(r, "append"))
        => /\ CallsOf(r, "upload") = {}
           /\ \E i \in RowsBy(r) : Last(rows[i].values) = FailureMarker
           /\ Len(responses[r]) = 1 /\ IsWarning(responses[r][1])

-----------------------------------------------------------------------------
(* C14 *)

\* C14: in the revisions named by the claim, a save of a report answers 500
\* only when obtaining the client, the metadata read or the append failed.
C14_HardFailureCauses ==
    \A r \in Reqs :
        (/\ variant \in MetaVariants /\ Done(r) /\ IsReport(r)
         /\ IsError(responses[r][1]))
        => (Failed(r, "auth") \/ Failed(r, "get") \/ Failed(r, "append"))

-----------------------------------------------------------------------------
(* C16 *)

Columns == <<"A", "B", "C", "D", "E", "F", "G", "H", "I", "J">>
ColumnIndex(c) == CHOOSE k \in DOMAIN Columns : Columns[k] = c
ColumnCount(range) == ColumnIndex(range.columns[2]) - ColumnIndex(range.columns[1]) + 1

\* C16: every row of the sheet holds, in this order, timestamp, substation,
\* docNumber, equipmentId, details, (detailsAI,) responsible, status,
\* signedDate and the file reference or marker: 9 or 10 fields, the file
\* reference last, and the range of its append spans as many columns as the
\* row has fields.
C16_RowLayout ==
    \A i \in DOMAIN rows :
        LET v == rows[i].values
            d == input[rows[i].by].data
            n == Len(v)
        IN /\ n \in {9, 10}
           /\ SubSeq(v, 1, 5) = <<<<"timestamp">>, d.substation, d.docNumber,
                                  <<"equipmentId">>, <<"details">>>>
           /\ n = 10 => v[6] = <<"detailsAI">>
           /\ SubSeq(v, n - 3, n - 1) = <<<<"responsible">>, <<"status">>, <<"signedDate">>>>
           /\ v[n] \in {<<>>, FailureMarker, Link(<<"file", rows[i].by>>)}
           /\ ColumnCount(rows[i].range) = n

\* C16 witness: the sheet holds a row of ten fields ending in a link.
C16_Witness ==
    \E i \in DOMAIN rows :
        /\ Len(rows[i].values) = 10
        /\ Last(rows[i].values) = Link(<<"file", rows[i].by>>)

-----------------------------------------------------------------------------
(* C19 *)

\* C19: nothing prevents or corrects a double create: when the create calls of
\* two requests succeeded for the same name, the root holds both folders, two
\* entries of that name.
C19_DuplicateFoldersKept ==
    \A r1, r2 \in Reqs :
        (/\ r1 # r2
         /\ Succeeded(r1, "mkdir") /\ Succeeded(r2, "mkdir")
         /\ FolderCreateName(variant, input[r1].data)
              = FolderCreateName(variant, input[r2].data))
        => /\ [id |-> <<"dir", r1>>, name |-> FolderCreateName(variant, input[r1].data)]
                \in folders
           /\ [id |-> <<"dir", r2>>, name |-> FolderCreateName(variant, input[r1].data)]
                \in folders

\* C19 witness: two requests in flight for one new substation name both looked
\* up, found nothing, and both created the folder.
C19_Witness ==
    \E r1, r2 \in Reqs :
        /\ r1 # r2
        /\ Succeeded(r1, "mkdir") /\ Succeeded(r2, "mkdir")
        /\ input[r1].data.substation = input[r2].data.substation
        /\ \E f1, f2 \in folders : f1.id # f2.id /\ f1.name = f2.name

-----------------------------------------------------------------------------
(* C15 *)

-----------------------------------------------------------------------------
(* C17 *)

\* C17: once the first tab bears another title than the default, every append
\* issued or about to be issued targets the title that the metadata read of
\* its own request returned.
C17_AppendTargetsFirstSheet ==
    \A r \in Reqs :
        (title # SheetTitle /\ (pc[r] = "append" \/ CallsOf(r, "append") # {}))
        => \E i \in CallsOf(r, "get") :
              /\ calls[r][i].ok
              /\ Range(variant, local[r]).sheet = calls[r][i].arg

-----------------------------------------------------------------------------
(* C18 *)

\* a substation value without its surrounding whitespace and leading prefix
WithoutPrefix(s) == Trim(StripPrefix(Trim(s)))

\* C18: in the revisions named by the claim, when two saves run one after the
\* other for substation values that differ only by the prefix and surrounding
\* whitespace and both uploaded their file, the two files are in the same
\* folder and the two saves did not both create a folder.
C18_PrefixSharesFolder ==
    \A r1, r2 \in Reqs :
        (/\ variant \in MetaVariants /\ r1 # r2
         /\ Done(r1) /\ Done(r2) /\ IsReport(r1) /\ IsReport(r2)
         /\ input[r1].data.substation # input[r2].data.substation
         /\ WithoutPrefix(input[r1].data.substation)
              = WithoutPrefix(input[r2].data.substation)
         /\ Succeeded(r1, "upload") /\ Succeeded(r2, "upload"))
        => /\ \A f1, f2 \in files : f1.parent = f2.parent
           /\ ~(Succeeded(r1, "mkdir") /\ Succeeded(r2, "mkdir"))

-----------------------------------------------------------------------------
(* C20 *)

\* C20: in the session revision, a reply of /api/auth/status is true exactly
\* when the session holds tokens; tokens only enter the session by a callback;
\* a logout leaves the session without tokens; and a save that starts on a
\* session without tokens ends at once with 500 "Not authenticated", having
\* issued no call and changed neither the store nor the sheet.
C20_SessionGate ==
    [][ /\ (status' # status) => (status' = <<session>>)
        /\ (~session /\ session') => AuthCallback
        /\ Logout => ~session'
        /\ \A r \in Reqs :
             (pc[r] = "entry" /\ pc'[r] # "entry" /\ ~session)
             => /\ pc'[r] = "done"
                /\ responses'[r] = <<Error500(NotAuthenticated)>>
                /\ Len(calls'[r]) = 1 /\ ~calls'[r][1].ok
                /\ UNCHANGED <<folders, files, rows>>
      ]_vars

\* C20 witness: the session, which held tokens when a save obtained its
\* client, holds none now; status replied false and another save was refused.
C20_Witness ==
    /\ ~session /\ status = <<FALSE>>
    /\ \E r1, r2 \in Reqs :
         /\ Succeeded(r1, "auth")
         /\ Done(r2) /\ responses[r2] = <<Error500(NotAuthenticated)>>
         /\ calls[r2] = <<[op |-> "auth", ok |-> FALSE, arg |-> <<>>,
                           err |-> NotAuthenticated]>>

-----------------------------------------------------------------------------
(* C21 *)

\* C21: in the latest revision, an upload for a docNumber that is empty after
\* trimming is issued under the original name with its encoding fixed.
C21_BlankDocNumberKeepsName ==
    \A r \in Reqs :
        (variant = Latest /\ Trim(input[r].data.docNumber) = <<>>)
        => \A i \in CallsOf(r, "upload") : calls[r][i].arg = FixEncoding(OriginalName)

-----------------------------------------------------------------------------
(* C22 *)

\* C22: when the upload of a finished save succeeded and its append failed,
\* the append is the last call the save issued, the uploaded file and the
\* folder the save created are still in the store, no row was written and the
\* response is 500.
C22_NoCompensation ==
    \A r \in Reqs :
        (Done(r) /\ Succeeded(r, "upload") /\ Failed(r, "append"))
        => /\ Last(calls[r]).op = "append"
           /\ \E f \in files : f.id = <<"file", r>>
           /\ Succeeded(r, "mkdir") => \E d \in folders : d.id = <<"dir", r>>
           /\ RowsBy(r) = {}
           /\ responses[r] = <<Error500(AppendError)>>

\* C22 witness: a save created its folder, uploaded its file and then failed
\* to append.
C22_Witness ==
    \E r \in Reqs :
        /\ Done(r) /\ Succeeded(r, "mkdir") /\ Succeeded(r, "upload")
        /\ Failed(r, "append")

-----------------------------------------------------------------------------
(* C23 *)

\* folders made by the save handler, as opposed to those found at the start
Created(fs) == {f \in fs : f.id[1] = "dir"}

\* C23: in the revisions named by the claim, with saves run one after the
\* other and a root that started without duplicate names, no two folders of
\* the root bear the same name and no two folders created by saves bear the
\* same normalized substation name.
C23_OneFolderPerName ==
    (/\ variant \in MetaVariants
     /\ \A f1, f2 \in folders \ Created(folders) : f1.id # f2.id => f1.name # f2.name)
    => /\ \A f1, f2 \in folders : f1.id # f2.id => f1.name # f2.name
       /\ \A f1, f2 \in Created(folders) :
            f1.id # f2.id => WithoutPrefix(f1.name) # WithoutPrefix(f2.name)

-----------------------------------------------------------------------------
(* C24 *)

\* C24: a save issues each of its calls at most once, and after a call of the
\* save failed it issues no call of the file store and no metadata read.
C24_NoRetry ==
    \A r \in Reqs :
        /\ \A op \in {"get", "list", "mkdir", "upload", "append"} :
             Cardinality(CallsOf(r, op)) <= 1
        /\ \A i, j \in DOMAIN calls[r] :
             (i < j /\ ~calls[r][i].ok) => calls[r][j].op = "append"

\* C24 witness: a save went on after a failed call of the file store.
C24_Witness ==
    \E r \in Reqs :
        /\ Done(r)
        /\ \E i \in DOMAIN calls[r] : ~calls[r][i].ok /\ calls[r][i].op \in FileStoreOps
        /\ CallsOf(r, "append") # {}

-----------------------------------------------------------------------------
(* C25 *)

\* C25: whatever the interleaving, a request deletes only its own temporary
\* file, a file it uploaded holds the content of its own temporary file, and
\* the temporary file of a request with a file is on disk until the request
\* itself is past its upload.
C25_OwnTempFileOnly ==
    \A r \in Reqs :
        /\ \A i \in DOMAIN unlinks[r] : unlinks[r][i] = <<"tmp", r>>
        /\ \A f \in files : f.id = <<"file", r>> => f.content = <<"tmp", r>>
        /\ (input[r].hasFile /\ pc[r] \in {"entry", "meta", "list", "mkdir", "upload"})
           => FilePath(r) \in tmp

\* C25 witness: one request deleted its temporary file while the other is
\* about to upload its own.
C25_Witness ==
    \E r1, r2 \in Reqs :
        /\ r1 # r2
        /\ unlinks[r1] # <<>>
        /\ pc[r2] = "upload" /\ FilePath(r2) \in tmp

-----------------------------------------------------------------------------
(* C27 *)

\* C27: in the revisions that read the metadata, every call of a save on the
\* file store or the sheet's values comes after its successful metadata read,
\* and a save whose metadata read failed is finished having looked up no
\* folder, created none and uploaded no file.
C27_MetadataReadFirst ==
    \A r \in Reqs :
        variant \in MetaVariants
        => /\ \A i \in DOMAIN calls[r] :
                calls[r][i].op \in FileStoreOps \cup {"append"}
                => \E j \in 1..(i - 1) : calls[r][j].op = "get" /\ calls[r][j].ok
           /\ Failed(r, "get")
              => /\ Done(r)
                 /\ \A op \in FileStoreOps : CallsOf(r, op) = {}
                 /\ ~\E d \in folders : d.id = <<"dir", r>>
                 /\ ~\E f \in files : f.id = <<"file", r>>

\* C27 witness: the metadata read of a save with a file failed.
C27_Witness ==
    \E r \in Reqs :
        variant \in MetaVariants /\ input[r].hasFile /\ Failed(r, "get")

-----------------------------------------------------------------------------
(* C28 *)

\* C28: in the latest revision, the name a save looks up and the name it
\* creates a folder under are not the empty string.
C28_FolderNameNotEmpty ==
    \A r \in Reqs :
        variant = Latest
        => \A i \in CallsOf(r, "list") \cup CallsOf(r, "mkdir") : calls[r][i].arg # <<>>

-----------------------------------------------------------------------------
(* C29 *)

\* C29: in the session revision, a callback step replies 200 or 500; one that
\* replies 500 leaves the tokens of the session as they were, held or not, and
\* one that replies 200 leaves the session with tokens.
C29_FailedCallbackKeepsSession ==
    [][ AuthCallback
        => /\ callback'[1].status \in {200, 500}
           /\ callback'[1].status = 500 => session' = session
           /\ callback'[1].status = 200 => session'
      ]_vars

\* C29 witness: a callback failed on a session that holds tokens.
C29_Witness ==
    /\ callback = <<CallbackReply(FALSE)>>
    /\ session

-----------------------------------------------------------------------------
(* C26 *)

\* C26: in the web form, the step that takes a save response leaves the data
\* and the file as they were and sets isSaving to false, whatever the
\* response; it shows an error message and schedules no reset unless the
\* response is plain success, in which case it shows the success message and
\* schedules one reset; and the form is only reset by such a scheduled reset
\* or by the clear button.
C26_ResetOnlyAfterFullSuccess ==
    [][ /\ (form.fetches # <<>> /\ form'.fetches = <<>>)
           => /\ ~form'.isSaving
              /\ form'.repairData = form.repairData
              /\ form'.selectedFile = form.selectedFile
              /\ IF form'.result = Success
                 THEN /\ form'.message = "success"
                      /\ Len(form'.timers) = Len(form.timers) + 1
                 ELSE /\ form'.message \in {"warning", "error"}
                      /\ form'.timers = form.timers
        /\ (form.selectedFile # NoFile /\ form'.selectedFile = NoFile)
           => (ClearForm \/ Len(form'.timers) < Len(form.timers))
      ]_vars

\* C26 witness: a save came back with a warning; the form still holds the file
\* and the data, shows the warning and is not saving.
C26_Witness ==
    /\ form.result = SuccessWithWarning(WarningText(UploadErrorText(UploadError)))
    /\ form.message = "warning" /\ ~form.isSaving
    /\ form.selectedFile # NoFile /\ form.repairData # INITIAL_DATA
    /\ form.timers = <<>>

-----------------------------------------------------------------------------
(* C30 *)

\* C30: in the web form, a reset that fires finds in the form the file and the
\* data the form held when the save that scheduled it completed, so that it
\* discards nothing selected, extracted or edited since.
C30_ResetDiscardsOnlySaved ==
    [][ Len(form'.timers) < Len(form.timers)
        => /\ form.selectedFile = Head(form.timers).file
           /\ form.repairData = Head(form.timers).data
      ]_vars

-----------------------------------------------------------------------------
(* C31 *)

\* C31: in the web form, before any save, a form that holds no file and the
\* initial data (at mount, or cleared by the user) only gets other data by the
\* user editing a field, or together with a newly selected file: an extraction
\* that completes for a cleared file does not fill it.
C31_ClearedFormStaysEmpty ==
    [][ (/\ form.saves = 0
         /\ form.selectedFile = NoFile /\ form.repairData = INITIAL_DATA
         /\ form'.repairData # INITIAL_DATA)
        => \/ form'.selectedFile # NoFile
           \/ form'.repairData = Edited(INITIAL_DATA)
      ]_vars

====
